---- MODULE Spec2Model ----
(***************************************************************************)
(* Model of the recorder's storage schema                                  *)
(* (homeassistant/components/recorder/db_schema.py): the conversions       *)
(* between native events / states and their database rows, the attribute   *)
(* payload encoding, the statistics tables' unique indices, the           *)
(* recorder-run entity query, and the payload stores with the rows that    *)
(* refer to them.                                                          *)
(*                                                                         *)
(* Conventions.  A nullable value is an option: None is the empty tuple    *)
(* and Some(x) the one-element tuple <<x>>.  A datetime is a number of     *)
(* ticks (the datetime resolution) since the epoch; an epoch float is a    *)
(* number of float steps (the spacing of doubles at the modelled           *)
(* magnitude) since the epoch.  A JSON text is a sequence of tokens.       *)
(***************************************************************************)
EXTENDS Integers, Sequences, FiniteSets, TLC

VARIABLES
    event,          \* the native event handed to the recorder, or None
    dialect,        \* the dialect the attribute payload was encoded for
    dbevent,        \* the Events row at hand (built by from_event or loaded)
    dbstate,        \* the States row at hand (built by from_event or loaded)
    shared_attrs,   \* the attribute payload bytes computed for `event`
    native,         \* result of the last to_native call
    states,         \* the states table (State Log), a sequence of rows
    recorder_runs,  \* the recorder_runs table
    run_entity_ids, \* result of the last RecorderRuns.entity_ids call
    statistics,             \* the statistics table (long term)
    statistics_short_term,  \* the statistics_short_term table
    stats_result,           \* outcome of the last statistics insert
    events,           \* the events table (Event Log)
    event_data,       \* the event_data table (payload store of events)
    state_attributes, \* the state_attributes table (payload store of states)
    uncommitted,      \* rows of each table the open transaction appended
    stored            \* the references the store calls handed out

vars == <<event, dialect, dbevent, dbstate, shared_attrs, native, states,
          recorder_runs, run_entity_ids, statistics, statistics_short_term,
          stats_result, events, event_data, state_attributes, uncommitted,
          stored>>

conv_vars == <<event, dialect, dbevent, dbstate, shared_attrs, native>>
run_vars == <<states, recorder_runs, run_entity_ids>>
stat_vars == <<statistics, statistics_short_term, stats_result>>
store_vars == <<events, event_data, state_attributes, uncommitted, stored>>

None == <<>>
Some(x) == <<x>>
Get(o) == o[1]

(***************************************************************************)
(* Bounds of the model.                                                    *)
(***************************************************************************)
\* datetimes range over 0..MaxTime ticks
MaxTime == 3
\* rows per table in the table-level specifications
MaxRows == 2
\* rows in the payload stores and the tables that refer to them, together
MaxStoreRows == 3

Times == 0..MaxTime

(***************************************************************************)
(* Time: dt_util.utc_to_timestamp / utc_from_timestamp.                    *)
(***************************************************************************)
\* datetime resolution: ticks per second (microseconds, scaled down)
TicksPerSec == 10
\* epoch floats: float steps per second at the modelled magnitude (a power
\* of two, finer than the datetime resolution as doubles are for present
\* day timestamps)
FloatStepsPerSec == 32

\* nearest integer to num/den (num >= 0, den > 0), ties to even
RoundDiv(num, den) ==
    LET q == num \div den
        r == num % den
    IN  IF 2 * r < den THEN q
        ELSE IF 2 * r > den THEN q + 1
        ELSE IF q % 2 = 0 THEN q ELSE q + 1

\* datetime (ticks) -> epoch float (float steps)
utc_to_timestamp(dt) == RoundDiv(dt * FloatStepsPerSec, TicksPerSec)

\* epoch float (float steps) -> datetime (ticks)
utc_from_timestamp(ts) == RoundDiv(ts * TicksPerSec, FloatStepsPerSec)

(***************************************************************************)
(* JSON: attribute mappings, their byte encoding and its parser            *)
(* (homeassistant.helpers.json: json_bytes, json_bytes_strip_null,         *)
(* json_loads).                                                            *)
(*                                                                         *)
(* A JSON value is a record [k, n]: a number n, a string of n characters,  *)
(* null, or Absent for a key the mapping does not hold.  A mapping is a    *)
(* function from AttrKeys to values.  A text is a sequence of tokens       *)
(* [k, s, n]; its byte length is the sum of the tokens' byte lengths.      *)
(***************************************************************************)
AttrKeys == {"brightness", "effect_list", "restored"}
KeyOrder == <<"brightness", "effect_list", "restored">>

Absent == [k |-> "absent", n |-> 0]
JNull == [k |-> "null", n |-> 0]
JNum(n) == [k |-> "num", n |-> n]
JStr(n) == [k |-> "str", n |-> n]

EmptyMap == [key \in AttrKeys |-> Absent]

Punct(c) == [k |-> "punct", s |-> c, n |-> 0]
KeyTok(key) == [k |-> "key", s |-> key, n |-> 0]
ValTok(v) == [k |-> v.k, s |-> "", n |-> v.n]

KeyLen(key) ==
    CASE key = "brightness" -> 10
      [] key = "effect_list" -> 11
      [] key = "restored" -> 8

\* decimal digits of a natural number
RECURSIVE Digits(_)
Digits(n) == IF n < 10 THEN 1 ELSE 1 + Digits(n \div 10)

\* bytes one token takes in the encoded text
TokBytes(t) ==
    CASE t.k = "punct" -> 1
      [] t.k = "key" -> KeyLen(t.s) + 2
      [] t.k = "num" -> Digits(t.n)
      [] t.k = "str" -> t.n + 2
      [] t.k = "null" -> 4
      [] OTHER -> 1

RECURSIVE ByteLen(_)
ByteLen(text) ==
    IF text = <<>> THEN 0 ELSE TokBytes(Head(text)) + ByteLen(Tail(text))

PresentKeys(m) == SelectSeq(KeyOrder, LAMBDA key : m[key] # Absent)

RECURSIVE Members(_, _)
Members(m, keys) ==
    IF keys = <<>> THEN <<>>
    ELSE <<KeyTok(Head(keys)), Punct(":"), ValTok(m[Head(keys)])>>
         \o (IF Len(keys) > 1 THEN <<Punct(",")>> ELSE <<>>)
         \o Members(m, Tail(keys))

\* json_bytes: the encoding of a mapping
json_bytes(m) == <<Punct("{")>> \o Members(m, PresentKeys(m)) \o <<Punct("}")>>

\* the strip-null variant: keys whose value is null are left out
json_bytes_strip_null(m) ==
    json_bytes([key \in AttrKeys |-> IF m[key] = JNull THEN Absent ELSE m[key]])

\* the empty-object encoding b"{}"
EmptyObjectBytes == <<Punct("{"), Punct("}")>>

IsValueTok(t) == t.k \in {"num", "str", "null"}

\* whether a text is the encoding of an object
WellFormed(text) ==
    /\ Len(text) >= 2
    /\ text[1] = Punct("{")
    /\ text[Len(text)] = Punct("}")
    /\ LET n == Len(text) - 2
       IN  /\ n = 0 \/ n % 4 = 3
           /\ \A i \in 1..n :
                LET t == text[i + 1]
                IN  CASE i % 4 = 1 -> t.k = "key" /\ t.s \in AttrKeys
                      [] i % 4 = 2 -> t = Punct(":")
                      [] i % 4 = 3 -> IsValueTok(t)
                      [] OTHER -> t = Punct(",")

\* the value the well-formed text gives a key (the last member wins)
ValueOf(text, key) ==
    LET at == {i \in 1..Len(text) : text[i] = KeyTok(key)}
    IN  IF at = {} THEN Absent
        ELSE LET i == CHOOSE j \in at : \A h \in at : h <= j
                 t == text[i + 2]
             IN  [k |-> t.k, n |-> t.n]

DecodeError == [ok |-> FALSE, value |-> EmptyMap]

\* json_loads: the mapping a text decodes to, or a decode error
json_loads(text) ==
    IF WellFormed(text)
    THEN [ok |-> TRUE, value |-> [key \in AttrKeys |-> ValueOf(text, key)]]
    ELSE DecodeError

(***************************************************************************)
(* Native objects (homeassistant.core): Context, Event, State.             *)
(***************************************************************************)
Context(id, user_id, parent_id) ==
    [id |-> id, user_id |-> user_id, parent_id |-> parent_id]

Event(event_type, data, origin, time_fired, context) ==
    [event_type |-> event_type, data |-> data, origin |-> origin,
     time_fired |-> time_fired, context |-> context]

State(entity_id, state, attributes, last_changed, last_updated, context) ==
    [entity_id |-> entity_id, state |-> state, attributes |-> attributes,
     last_changed |-> last_changed, last_updated |-> last_updated,
     context |-> context]

\* the domain of an entity id, "<domain>.<object id>"
split_entity_id_domain(entity_id) ==
    CASE entity_id = "light.x" -> "light"
      [] entity_id = "sensor.y" -> "sensor"

(***************************************************************************)
(* Results of a read: a native object, Python's None, or a raised          *)
(* exception.                                                              *)
(***************************************************************************)
Returned(of, v) == [of |-> of, status |-> "ok", exc |-> "", value |-> Some(v)]
ReturnedNone(of) == [of |-> of, status |-> "none", exc |-> "", value |-> None]
Raised(of, exc) == [of |-> of, status |-> "raise", exc |-> exc, value |-> None]
NotRead == [of |-> "", status |-> "unread", exc |-> "", value |-> None]

\* Python truthiness of a nullable text / nullable number column
TruthyText(o) == o # None /\ Get(o) # <<>>
TruthyStr(o) == o # None /\ Get(o) # ""
OrZero(o) == IF o = None THEN 0 ELSE Get(o)

(***************************************************************************)
(* Events                                                                  *)
(***************************************************************************)
EVENT_ORIGIN_ORDER == <<"LOCAL", "REMOTE">>

\* EVENT_ORIGIN_TO_IDX.get(origin): the index, or None for an unknown origin
EVENT_ORIGIN_TO_IDX_get(origin) ==
    IF \E i \in 1..Len(EVENT_ORIGIN_ORDER) : EVENT_ORIGIN_ORDER[i] = origin
    THEN Some((CHOOSE i \in 1..Len(EVENT_ORIGIN_ORDER) :
                   EVENT_ORIGIN_ORDER[i] = origin) - 1)
    ELSE None

\* a new Events object: every column the constructor is not given is NULL
EventsColumns ==
    [event_id |-> None, event_type |-> None, event_data |-> None,
     origin |-> None, origin_idx |-> None, time_fired |-> None,
     time_fired_ts |-> None, context_id |-> None, context_user_id |-> None,
     context_parent_id |-> None, data_id |-> None]

\* mutant: the context's parent id lands in the user-id column
Events_from_event_swapped(e) ==
    [EventsColumns EXCEPT
        !.event_type = e.event_type,
        !.event_data = None,
        !.origin_idx = EVENT_ORIGIN_TO_IDX_get(e.origin),
        !.time_fired = None,
        !.time_fired_ts = Some(utc_to_timestamp(e.time_fired)),
        !.context_id = e.context.id,
        !.context_user_id = e.context.parent_id,
        !.context_parent_id = e.context.parent_id]

\* mutant: the legacy datetime column is written as well
Events_from_event_legacy(e) ==
    [EventsColumns EXCEPT
        !.event_type = e.event_type,
        !.event_data = None,
        !.origin_idx = EVENT_ORIGIN_TO_IDX_get(e.origin),
        !.time_fired = Some(e.time_fired),
        !.time_fired_ts = Some(utc_to_timestamp(e.time_fired)),
        !.context_id = e.context.id,
        !.context_user_id = e.context.user_id,
        !.context_parent_id = e.context.parent_id]

Events_from_event(e) ==
    [EventsColumns EXCEPT
        !.event_type = e.event_type,
        !.event_data = None,
        !.origin_idx = EVENT_ORIGIN_TO_IDX_get(e.origin),
        !.time_fired = None,
        !.time_fired_ts = Some(utc_to_timestamp(e.time_fired)),
        !.context_id = e.context.id,
        !.context_user_id = e.context.user_id,
        !.context_parent_id = e.context.parent_id]

\* mutant: the decode error escapes to the caller
Events_decode_failed_raises == Raised("Events", "JSONDecodeError")

\* except JSON_DECODE_EXCEPTIONS: log and return None
Events_decode_failed == ReturnedNone("Events")

\* the arguments of Event(...) are evaluated left to right: the payload is
\* decoded first, then the origin, then the timestamp
Events_to_native(row) ==
    LET context == Context(row.context_id, row.context_user_id,
                           row.context_parent_id)
        data == IF TruthyText(row.event_data)
                THEN json_loads(Get(row.event_data))
                ELSE [ok |-> TRUE, value |-> EmptyMap]
    IN  IF ~data.ok THEN Events_decode_failed
        ELSE IF TruthyStr(row.origin)
                /\ \A i \in 1..Len(EVENT_ORIGIN_ORDER) :
                       EVENT_ORIGIN_ORDER[i] # Get(row.origin)
        THEN Raised("Events", "ValueError")
        ELSE IF ~TruthyStr(row.origin) /\ row.origin_idx = None
        THEN Raised("Events", "TypeError")
        ELSE IF ~TruthyStr(row.origin)
                /\ Get(row.origin_idx) + 1 \notin 1..Len(EVENT_ORIGIN_ORDER)
        THEN Raised("Events", "IndexError")
        ELSE IF row.time_fired_ts = None THEN Raised("Events", "TypeError")
        ELSE Returned("Events",
                 Event(row.event_type,
                       data.value,
                       IF TruthyStr(row.origin) THEN Get(row.origin)
                       ELSE EVENT_ORIGIN_ORDER[Get(row.origin_idx) + 1],
                       utc_from_timestamp(Get(row.time_fired_ts)),
                       context))

(***************************************************************************)
(* States                                                                  *)
(***************************************************************************)
StatesColumns ==
    [state_id |-> None, entity_id |-> None, state |-> None,
     attributes |-> None, event_id |-> None, last_changed |-> None,
     last_changed_ts |-> None, last_updated |-> None,
     last_updated_ts |-> None, old_state_id |-> None,
     attributes_id |-> None, context_id |-> None, context_user_id |-> None,
     context_parent_id |-> None, origin_idx |-> None]

\* mutant: the removal path stores last_changed_ts like last_updated_ts
from_event_removed_stamped(dbstate0, e) ==
    [dbstate0 EXCEPT
        !.state = Some(""),
        !.last_updated_ts = Some(utc_to_timestamp(e.time_fired)),
        !.last_changed_ts = Some(utc_to_timestamp(e.time_fired))]

\* States.from_event, "if state is None": the state was removed
from_event_removed(dbstate0, e) ==
    [dbstate0 EXCEPT
        !.state = Some(""),
        !.last_updated_ts = Some(utc_to_timestamp(e.time_fired)),
        !.last_changed_ts = None]

\* mutant: last_changed_ts is stored even when it equals last_updated_ts
from_event_changed_always(dbstate0, state) ==
    [dbstate0 EXCEPT
        !.state = state.state,
        !.last_updated_ts = Some(utc_to_timestamp(state.last_updated)),
        !.last_changed_ts = Some(utc_to_timestamp(state.last_changed))]

\* States.from_event, the path of a state that is not None
from_event_changed(dbstate0, state) ==
    [dbstate0 EXCEPT
        !.state = state.state,
        !.last_updated_ts = Some(utc_to_timestamp(state.last_updated)),
        !.last_changed_ts =
            IF state.last_updated = state.last_changed
            THEN None
            ELSE Some(utc_to_timestamp(state.last_changed))]

States_from_event(e) ==
    LET entity_id == e.data.entity_id
        state == e.data.new_state
        dbstate0 == [StatesColumns EXCEPT
                        !.entity_id = entity_id,
                        !.attributes = None,
                        !.context_id = e.context.id,
                        !.context_user_id = e.context.user_id,
                        !.context_parent_id = e.context.parent_id,
                        !.origin_idx = EVENT_ORIGIN_TO_IDX_get(e.origin),
                        !.last_updated = None,
                        !.last_changed = None]
    IN  IF state = None
        THEN from_event_removed(dbstate0, e)
        ELSE from_event_changed(dbstate0, Get(state))

\* except JSON_DECODE_EXCEPTIONS: log and return None
States_decode_failed == ReturnedNone("States")

States_to_native(row) ==
    LET context == Context(row.context_id, row.context_user_id,
                           row.context_parent_id)
        attrs == IF TruthyText(row.attributes)
                 THEN json_loads(Get(row.attributes))
                 ELSE [ok |-> TRUE, value |-> EmptyMap]
        collapse == \/ row.last_changed_ts = None
                    \/ row.last_changed_ts = row.last_updated_ts
        last_updated == utc_from_timestamp(OrZero(row.last_updated_ts))
        last_changed == IF collapse THEN last_updated
                        ELSE utc_from_timestamp(OrZero(row.last_changed_ts))
    IN  IF ~attrs.ok THEN States_decode_failed
        ELSE Returned("States",
                 State(row.entity_id, row.state, attrs.value, last_changed,
                       last_updated, context))

(***************************************************************************)
(* StateAttributes                                                         *)
(***************************************************************************)
MAX_STATE_ATTRS_BYTES == 16384
PSQL_DIALECT == Some("postgresql")

\* recorder.const.ALL_DOMAIN_EXCLUDE_ATTRS: the global exclusion set
ALL_DOMAIN_EXCLUDE_ATTRS == {"restored"}

\* mutant: the set configured for the domain is not looked up
ExcludeGet_unconfigured(exclude_attrs_by_domain, domain) == {}

\* exclude_attrs_by_domain.get(domain, set())
ExcludeGet(exclude_attrs_by_domain, domain) ==
    IF domain \in DOMAIN exclude_attrs_by_domain
    THEN exclude_attrs_by_domain[domain]
    ELSE {}

\* {k: v for k, v in attributes.items() if k not in exclude_attrs}
WithoutKeys(attributes, exclude_attrs) ==
    [key \in AttrKeys |->
        IF key \in exclude_attrs THEN Absent ELSE attributes[key]]

\* mutant: a payload of exactly the maximum size is dropped too
exceeds_max_inclusive(bytes_result) ==
    ByteLen(bytes_result) >= MAX_STATE_ATTRS_BYTES

\* len(bytes_result) > MAX_STATE_ATTRS_BYTES
exceeds_max(bytes_result) == ByteLen(bytes_result) > MAX_STATE_ATTRS_BYTES

shared_attrs_bytes_from_event(e, exclude_attrs_by_domain, dia) ==
    LET state == e.data.new_state
    IN  IF state = None THEN EmptyObjectBytes
        ELSE LET domain == split_entity_id_domain(Get(Get(state).entity_id))
                 exclude_attrs ==
                     ExcludeGet(exclude_attrs_by_domain, domain)
                         \cup ALL_DOMAIN_EXCLUDE_ATTRS
                 kept == WithoutKeys(Get(state).attributes, exclude_attrs)
                 bytes_result == IF dia = PSQL_DIALECT
                                 THEN json_bytes_strip_null(kept)
                                 ELSE json_bytes(kept)
             IN  IF exceeds_max(bytes_result)
                 THEN EmptyObjectBytes
                 ELSE bytes_result

(***************************************************************************)
(* Inputs: the native events the platform hands over, the recorder's       *)
(* configuration, and the rows older versions left in the tables.          *)
(***************************************************************************)
Contexts ==
    {Context(Some("c1"), None, None), Context(Some("c2"), Some("u1"), Some("c1"))}

\* "OTHER" stands for an origin that is no member of EventOrigin
Origins == {"LOCAL", "REMOTE", "OTHER"}

Dialects == {None, Some("sqlite"), PSQL_DIALECT}

EntityIds == {"light.x", "sensor.y"}

\* the recorder's per-domain exclusion table
ExcludeAttrsByDomain == [d \in {"light"} |-> {"effect_list"}]

\* a string so long that {"brightness": <it>} encodes to exactly
\* MAX_STATE_ATTRS_BYTES bytes
FitLen == MAX_STATE_ATTRS_BYTES - (KeyLen("brightness") + 2) - 5

AttrSets ==
    {EmptyMap,
     [EmptyMap EXCEPT !["brightness"] = JNum(100)],
     [EmptyMap EXCEPT !["brightness"] = JNull, !["effect_list"] = JStr(3)],
     [EmptyMap EXCEPT !["brightness"] = JNum(100), !["restored"] = JNum(1)],
     [EmptyMap EXCEPT !["brightness"] = JStr(FitLen)],
     [EmptyMap EXCEPT !["brightness"] = JStr(FitLen + 1)],
     [EmptyMap EXCEPT !["brightness"] = JNum(100),
                      !["restored"] = JStr(FitLen + 1)]}

NoData == [entity_id |-> None, old_state |-> None, new_state |-> None]

\* events other than state changes
NativeEvents ==
    {Event(Some("call_service"), NoData, o, t, c) :
        o \in Origins, t \in Times, c \in Contexts}

\* the states of an entity: last_changed never follows last_updated
NewStates(entity_id, c) ==
    {State(Some(entity_id), Some("on"), a, p[1], p[2], c) :
        a \in AttrSets,
        p \in {q \in Times \X Times : q[1] <= q[2]}}

OldState(entity_id) ==
    State(Some(entity_id), Some("off"),
          [EmptyMap EXCEPT !["brightness"] = JNum(100)], 0, 0,
          Context(Some("c1"), None, None))

\* the data of a state_changed event for an entity: a removal (new_state
\* None, whatever the old state) or a change to a new state
RemovalData(entity_id) ==
    {[entity_id |-> Some(entity_id), old_state |-> os, new_state |-> None] :
        os \in {None, Some(OldState(entity_id))}}

ChangeData(entity_id, c) ==
    {[entity_id |-> Some(entity_id), old_state |-> None,
      new_state |-> Some(s)] : s \in NewStates(entity_id, c)}

StateChangedEvents ==
    UNION {
        {Event(Some("state_changed"), d, o, t, ic[2]) :
            d \in RemovalData(ic[1]) \cup ChangeData(ic[1], ic[2]),
            o \in Origins, t \in Times} : ic \in EntityIds \X Contexts}

\* payload / attribute texts found in the legacy inline columns: absent,
\* empty, an object, a truncated object, and text that is no JSON at all
SomeAttrs == [EmptyMap EXCEPT !["brightness"] = JNum(100)]

InlineTexts ==
    {None,
     Some(<<>>),
     Some(json_bytes(SomeAttrs)),
     Some(SubSeq(json_bytes(SomeAttrs), 1, 3)),
     Some(<<Punct("}")>>)}

StoredTimes == {1, MaxTime}

\* Events rows as the schema's versions wrote them: "legacy" rows carry the
\* inline origin string and the datetime only, "migrated" rows both
\* timestamp representations, "current" rows the epoch float only
StoredEventsRows ==
    {[EventsColumns EXCEPT
         !.event_id = Some(1),
         !.event_type = Some("call_service"),
         !.event_data = txt,
         !.origin = IF fmt = "legacy" THEN Some("LOCAL") ELSE None,
         !.origin_idx = IF fmt = "legacy" THEN None ELSE Some(1),
         !.time_fired = IF fmt = "current" THEN None ELSE Some(t),
         !.time_fired_ts = IF fmt = "legacy" THEN None
                           ELSE Some(utc_to_timestamp(t)),
         !.context_id = Some("c1")] :
        txt \in InlineTexts, fmt \in {"legacy", "migrated", "current"},
        t \in StoredTimes}

\* States rows as the schema's versions wrote them; current rows refer to
\* their attributes by attributes_id
StoredStatesRows ==
    {[StatesColumns EXCEPT
         !.state_id = Some(1),
         !.entity_id = Some("light.x"),
         !.state = Some("on"),
         !.attributes = txt,
         !.attributes_id = IF fmt = "legacy" THEN None ELSE Some(1),
         !.last_updated = IF fmt = "current" THEN None ELSE Some(t),
         !.last_changed = IF fmt = "current" THEN None ELSE Some(1),
         !.last_updated_ts = IF fmt = "legacy" THEN None
                             ELSE Some(utc_to_timestamp(t)),
         !.last_changed_ts = IF fmt = "legacy" \/ t = 1 THEN None
                             ELSE Some(utc_to_timestamp(1)),
         !.origin_idx = IF fmt = "legacy" THEN None ELSE Some(0),
         !.context_id = Some("c1")] :
        txt \in InlineTexts, fmt \in {"legacy", "migrated", "current"},
        t \in StoredTimes}

(***************************************************************************)
(* The conversions between native objects and rows.  The initial state     *)
(* draws the input: a native event handed over by the platform, or a row   *)
(* an earlier version wrote, handed back by a query.  Every table is       *)
(* empty.                                                                  *)
(***************************************************************************)
\* no statistics write has been made yet
NothingWritten ==
    [table |-> "", metadata_id |-> None, start |-> None, outcome |-> "none"]

\* the open transaction has appended nothing
NothingUncommitted ==
    [events |-> 0, states |-> 0, event_data |-> 0, state_attributes |-> 0]

StoreEmpty ==
    /\ events = <<>>
    /\ event_data = <<>>
    /\ state_attributes = <<>>
    /\ uncommitted = NothingUncommitted
    /\ stored = {}

TablesEmpty ==
    /\ StoreEmpty
    /\ states = <<>>
    /\ recorder_runs = <<>>
    /\ run_entity_ids = None
    /\ statistics = <<>>
    /\ statistics_short_term = <<>>
    /\ stats_result = NothingWritten

Init ==
    /\ \/ /\ event \in {Some(e) : e \in NativeEvents \cup StateChangedEvents}
          /\ dbevent = None
          /\ dbstate = None
       \/ /\ event = None
          /\ dbevent \in {Some(row) : row \in StoredEventsRows}
          /\ dbstate = None
       \/ /\ event = None
          /\ dbevent = None
          /\ dbstate \in {Some(row) : row \in StoredStatesRows}
    /\ dialect = None
    /\ shared_attrs = None
    /\ native = NotRead
    /\ TablesEmpty

\* Events.from_event(event)
EventsFromEvent ==
    /\ event # None
    /\ dbevent = None
    /\ dbevent' = Some(Events_from_event(Get(event)))
    /\ UNCHANGED <<event, dialect, dbstate, shared_attrs, native,
                   run_vars, stat_vars, store_vars>>

\* States.from_event(event) for a state_changed event
StatesFromEvent ==
    /\ event # None
    /\ Get(event).event_type = Some("state_changed")
    /\ dbstate = None
    /\ dbstate' = Some(States_from_event(Get(event)))
    /\ UNCHANGED <<event, dialect, dbevent, shared_attrs, native,
                   run_vars, stat_vars, store_vars>>

\* StateAttributes.shared_attrs_bytes_from_event(event, exclude, dialect)
SharedAttrsBytesFromEvent ==
    \E d \in Dialects :
        /\ event # None
        /\ Get(event).event_type = Some("state_changed")
        /\ shared_attrs = None
        /\ shared_attrs' =
               Some(shared_attrs_bytes_from_event(Get(event),
                                                  ExcludeAttrsByDomain, d))
        /\ dialect' = d
        /\ UNCHANGED <<event, dbevent, dbstate, native, run_vars, stat_vars, store_vars>>

\* Events.to_native() on the row at hand
EventsToNative ==
    /\ dbevent # None
    /\ native' = Events_to_native(Get(dbevent))
    /\ UNCHANGED <<event, dialect, dbevent, dbstate, shared_attrs,
                   run_vars, stat_vars, store_vars>>

\* States.to_native() on the row at hand
StatesToNative ==
    /\ dbstate # None
    /\ native' = States_to_native(Get(dbstate))
    /\ UNCHANGED <<event, dialect, dbevent, dbstate, shared_attrs,
                   run_vars, stat_vars, store_vars>>

Next ==
    \/ EventsFromEvent
    \/ StatesFromEvent
    \/ SharedAttrsBytesFromEvent
    \/ EventsToNative
    \/ StatesToNative

Spec == Init /\ [][Next]_vars

(***************************************************************************)
(* Properties of the conversions.                                          *)
(***************************************************************************)
\* the event at hand is a state_changed event
IsStateChanged == event # None /\ Get(event).event_type = Some("state_changed")

\* the event at hand is a state_changed event with a new state
HasNewState == IsStateChanged /\ Get(event).data.new_state # None

\* C1: an event whose origin is local or remote, written by
\* Events.from_event and read back by Events.to_native, comes back as an
\* event (not None) with the same event type, origin and context triple, and
\* the same fired-at instant as an epoch float.
C1_EventRoundTrip ==
    (/\ event # None
     /\ Get(event).origin \in {"LOCAL", "REMOTE"}
     /\ dbevent # None
     /\ native.of = "Events")
    => /\ native.status = "ok"
       /\ Get(native.value).event_type = Get(event).event_type
       /\ Get(native.value).origin = Get(event).origin
       /\ Get(native.value).context.id = Get(event).context.id
       /\ Get(native.value).context.user_id = Get(event).context.user_id
       /\ Get(native.value).context.parent_id = Get(event).context.parent_id
       /\ utc_to_timestamp(Get(native.value).time_fired)
              = utc_to_timestamp(Get(event).time_fired)

\* a remote event with a full context triple and a fired-at after the epoch
\* was written and read back
C1_Witness ==
    /\ event # None
    /\ Get(event).origin = "REMOTE"
    /\ Get(event).context.user_id # None
    /\ Get(event).context.parent_id # None
    /\ Get(event).time_fired > 0
    /\ dbevent # None
    /\ native.of = "Events"
    /\ native.status = "ok"

\* the attributes of the state at hand after exclusion-set stripping
StrippedAttributes ==
    LET state == Get(Get(event).data.new_state)
    IN  WithoutKeys(state.attributes,
            ExcludeGet(ExcludeAttrsByDomain,
                       split_entity_id_domain(Get(state.entity_id)))
                \cup ALL_DOMAIN_EXCLUDE_ATTRS)

\* C2: a state change with a new state, written by States.from_event with
\* its attribute payload stored, and read back by States.to_native, comes
\* back with the same entity id, state value, timestamps, and the attributes
\* of the stored payload (the state's attributes after exclusion-set
\* stripping, when the payload holds them unchanged).
C2_StateRoundTrip ==
    (/\ HasNewState
     /\ Get(event).origin \in {"LOCAL", "REMOTE"}
     /\ dbstate # None
     /\ shared_attrs # None
     /\ native.of = "States")
    => /\ native.status = "ok"
       /\ Get(native.value).entity_id = Get(Get(event).data.new_state).entity_id
       /\ Get(native.value).state = Get(Get(event).data.new_state).state
       /\ Get(native.value).last_updated
              = Get(Get(event).data.new_state).last_updated
       /\ Get(native.value).last_changed
              = Get(Get(event).data.new_state).last_changed
       /\ Get(native.value).attributes = json_loads(Get(shared_attrs)).value
       /\ (Get(shared_attrs) = json_bytes(StrippedAttributes)
              => Get(native.value).attributes = StrippedAttributes)

\* C3: for a state_changed event whose new state is None, whatever its
\* other data, States.from_event gives a row with state "", last_updated_ts
\* the event's fired-at as an epoch float and last_changed_ts NULL, and the
\* attribute payload computed for the event is b"{}".
C3_RemovalSentinel ==
    (IsStateChanged /\ Get(event).data.new_state = None)
    => /\ dbstate # None
          => /\ Get(dbstate).state = Some("")
             /\ Get(dbstate).last_updated_ts
                    = Some(utc_to_timestamp(Get(event).time_fired))
             /\ Get(dbstate).last_changed_ts = None
       /\ shared_attrs # None
          => Get(shared_attrs) = <<Punct("{"), Punct("}")>>

\* a removal event that carries an old state, fired after the epoch, has
\* been converted to a row and to a payload
C3_Witness ==
    /\ IsStateChanged
    /\ Get(event).data.new_state = None
    /\ Get(event).data.old_state # None
    /\ Get(event).time_fired > 0
    /\ dbstate # None
    /\ shared_attrs # None

\* C4: for a state_changed event with a new state, the row of
\* States.from_event has last_updated_ts the state's last_updated, and
\* last_changed_ts NULL exactly when the state's last_changed equals its
\* last_updated, else the state's last_changed; and no row States.from_event
\* writes holds a non-NULL last_changed_ts equal to its last_updated_ts.
C4_SpaceSaving ==
    /\ (HasNewState /\ dbstate # None)
       => LET state == Get(Get(event).data.new_state)
              row == Get(dbstate)
          IN  /\ row.last_updated_ts
                     = Some(utc_to_timestamp(state.last_updated))
              /\ (row.last_changed_ts = None)
                     <=> (state.last_changed = state.last_updated)
              /\ state.last_changed # state.last_updated
                     => row.last_changed_ts
                            = Some(utc_to_timestamp(state.last_changed))
    /\ (IsStateChanged /\ dbstate # None)
       => Get(dbstate).last_changed_ts # Get(dbstate).last_updated_ts

\* a state whose last_changed equals its last_updated was written with a
\* NULL last_changed_ts
C4_Witness ==
    /\ HasNewState
    /\ dbstate # None
    /\ Get(Get(event).data.new_state).last_updated > 0
    /\ Get(Get(event).data.new_state).last_changed
           = Get(Get(event).data.new_state).last_updated
    /\ Get(dbstate).last_changed_ts = None

\* the encoding of the stripped attributes under the dialect at hand
EncodedAttributes ==
    IF dialect = Some("postgresql")
    THEN json_bytes_strip_null(StrippedAttributes)
    ELSE json_bytes(StrippedAttributes)

\* C5: for a state_changed event with a new state,
\* shared_attrs_bytes_from_event returns b"{}" when the encoded stripped
\* attributes are longer than 16384 bytes and the encoding itself when it is
\* at most 16384 bytes long; what it returns is never longer than 16384.
C5_OversizedAttributes ==
    (HasNewState /\ shared_attrs # None)
    => /\ ByteLen(EncodedAttributes) > 16384
          => Get(shared_attrs) = <<Punct("{"), Punct("}")>>
       /\ ByteLen(EncodedAttributes) <= 16384
          => Get(shared_attrs) = EncodedAttributes
       /\ ByteLen(Get(shared_attrs)) <= 16384

\* attributes that encode to more than 16384 bytes were replaced by b"{}"
C5_Witness ==
    /\ HasNewState
    /\ shared_attrs # None
    /\ ByteLen(EncodedAttributes) > 16384
    /\ Get(shared_attrs) = <<Punct("{"), Punct("}")>>

\* the text of a column is present and does not decode
Undecodable(text) == text # None /\ ~json_loads(Get(text)).ok

\* C7 as stated: every Events row and every States row whose inline text is
\* not valid JSON is read as None by to_native, without an exception.
C7_MalformedReadsNone ==
    /\ (dbevent # None /\ native.of = "Events"
          /\ Undecodable(Get(dbevent).event_data))
       => native.status = "none"
    /\ (dbstate # None /\ native.of = "States"
          /\ Undecodable(Get(dbstate).attributes))
       => native.status = "none"

\* C7 as amended: every Events row and every States row whose inline text
\* is not empty and is not valid JSON is read as None by to_native, without
\* an exception; an empty text is read like an absent one, never decoded.
C7_NonEmptyMalformedReadsNone ==
    /\ (dbevent # None /\ native.of = "Events"
          /\ Undecodable(Get(dbevent).event_data))
       => IF Get(Get(dbevent).event_data) # <<>>
          THEN native.status = "none"
          ELSE native = Events_to_native(
                            [Get(dbevent) EXCEPT !.event_data = None])
    /\ (dbstate # None /\ native.of = "States"
          /\ Undecodable(Get(dbstate).attributes))
       => IF Get(Get(dbstate).attributes) # <<>>
          THEN native.status = "none"
          ELSE native = States_to_native(
                            [Get(dbstate) EXCEPT !.attributes = None])

\* an Events row holding a truncated object was read as None
C7_Witness ==
    /\ dbevent # None
    /\ native.of = "Events"
    /\ Undecodable(Get(dbevent).event_data)
    /\ Len(Get(Get(dbevent).event_data)) > 1
    /\ native.status = "none"

\* C8: every row of Events.from_event has NULL event_data, origin and
\* time_fired, every row of States.from_event has NULL attributes,
\* last_changed and last_updated, on the removal path and on the other; the
\* timestamp is in the epoch-float column.
C8_LegacyColumnsEmpty ==
    /\ (event # None /\ dbevent # None)
       => /\ Get(dbevent).event_data = None
          /\ Get(dbevent).origin = None
          /\ Get(dbevent).time_fired = None
          /\ Get(dbevent).time_fired_ts # None
    /\ (event # None /\ dbstate # None)
       => /\ Get(dbstate).attributes = None
          /\ Get(dbstate).last_changed = None
          /\ Get(dbstate).last_updated = None
          /\ Get(dbstate).last_updated_ts # None

\* one state_changed event with a new state was converted to an Events row
\* and to a States row
C8_Witness ==
    /\ HasNewState
    /\ dbevent # None
    /\ dbstate # None
    /\ Get(dbstate).last_changed_ts # None

\* the instant a row's two timestamp representations stand for: the epoch
\* float when present, else the legacy datetime
Versioned(ts, legacy) ==
    IF ts # None THEN utc_from_timestamp(Get(ts)) ELSE Get(legacy)

\* C9: whichever timestamp representation a row carries, to_native reads
\* the row's timestamp: the epoch float when present, else the legacy
\* datetime (rows whose inline text does not decode aside).
C9_VersionedTimestampRead ==
    /\ (dbevent # None /\ native.of = "Events"
          /\ ~Undecodable(Get(dbevent).event_data))
       => /\ native.status = "ok"
          /\ Get(native.value).time_fired
                 = Versioned(Get(dbevent).time_fired_ts,
                             Get(dbevent).time_fired)
    /\ (dbstate # None /\ native.of = "States"
          /\ ~Undecodable(Get(dbstate).attributes))
       => /\ native.status = "ok"
          /\ Get(native.value).last_updated
                 = Versioned(Get(dbstate).last_updated_ts,
                             Get(dbstate).last_updated)

\* the stored index of an origin under the fixed mapping {local: 0, remote: 1}
OriginIndex(origin) == IF origin = "LOCAL" THEN Some(0)
                       ELSE IF origin = "REMOTE" THEN Some(1)
                       ELSE None

\* C11: every row written by Events.from_event or States.from_event has
\* origin index 0 for origin local and 1 for origin remote, and no row with
\* an absent or out-of-range origin index is produced: an event whose origin
\* is neither does not yield a record.
C11_OriginIndexStored ==
    /\ (event # None /\ dbevent # None)
       => /\ Get(dbevent).origin_idx \in {Some(0), Some(1)}
          /\ Get(dbevent).origin_idx = OriginIndex(Get(event).origin)
    /\ (event # None /\ dbstate # None)
       => /\ Get(dbstate).origin_idx \in {Some(0), Some(1)}
          /\ Get(dbstate).origin_idx = OriginIndex(Get(event).origin)

\* the attributes the payload of the state at hand is to hold: those whose
\* key is in neither the set configured for the state's domain (if one is
\* configured) nor the global set, and, for PostgreSQL, whose value is not
\* null
CanonicalAttributes ==
    LET state == Get(Get(event).data.new_state)
        domain == split_entity_id_domain(Get(state.entity_id))
        configured == UNION {ExcludeAttrsByDomain[d] :
                                d \in {domain} \cap DOMAIN ExcludeAttrsByDomain}
    IN  [key \in AttrKeys |->
            IF \/ key \in configured
               \/ key \in ALL_DOMAIN_EXCLUDE_ATTRS
               \/ dialect = Some("postgresql") /\ state.attributes[key] = JNull
            THEN Absent
            ELSE state.attributes[key]]

\* C14: for a state_changed event with a new state whose encoding fits the
\* size ceiling, shared_attrs_bytes_from_event encodes exactly the
\* attributes whose key is in neither the exclusion set of the entity's
\* domain nor the global one (the global one only for a domain without a
\* set), without the null-valued keys for PostgreSQL and with them for any
\* other or no dialect; the payload is thus a function of the event, the
\* exclusion table and the dialect.
C14_AttributeCanonicalization ==
    (/\ HasNewState
     /\ shared_attrs # None
     /\ ByteLen(json_bytes(CanonicalAttributes)) <= MAX_STATE_ATTRS_BYTES)
    => /\ json_loads(Get(shared_attrs)).ok
       /\ json_loads(Get(shared_attrs)).value = CanonicalAttributes
       /\ \A i \in 1..Len(Get(shared_attrs)) :
             Get(shared_attrs)[i].k = "key"
             => CanonicalAttributes[Get(shared_attrs)[i].s] # Absent

\* a sensor (no exclusion set configured for its domain) with a null-valued
\* attribute and another, encoded for PostgreSQL: only the other is encoded
C14_Witness ==
    /\ HasNewState
    /\ shared_attrs # None
    /\ Get(Get(Get(event).data.new_state).entity_id) = "sensor.y"
    /\ Get(Get(event).data.new_state).attributes["brightness"] = JNull
    /\ Get(Get(event).data.new_state).attributes["effect_list"] = JStr(3)
    /\ dialect = Some("postgresql")
    /\ Get(shared_attrs) =
           <<Punct("{"), KeyTok("effect_list"), Punct(":"),
             ValTok(JStr(3)), Punct("}")>>

(***************************************************************************)
(* Statistics and StatisticsShortTerm: two tables of the same shape, each  *)
(* with a unique index on (metadata_id, start).                            *)
(***************************************************************************)
StatisticsColumns ==
    [id |-> None, metadata_id |-> None, start |-> None, mean |-> None,
     min |-> None, max |-> None, last_reset |-> None, state |-> None,
     sum |-> None]

\* StatisticsBase.from_stats(metadata_id, stats): cls(metadata_id, **stats)
from_stats(metadata_id, stats) ==
    [StatisticsColumns EXCEPT
        !.metadata_id = Some(metadata_id),
        !.start = Some(stats.start),
        !.mean = stats.mean,
        !.sum = stats.sum]

\* mutant: the index on (metadata_id, start) is not unique
index_not_unique(table, row) == FALSE

\* Index(..., "metadata_id", "start", unique=True): the table holds a row
\* with the new row's key
unique_index_conflict(table, row) ==
    \E i \in 1..Len(table) :
        /\ table[i].metadata_id = row.metadata_id
        /\ table[i].start = row.start

\* the table after the INSERT of a row: the identity column numbers the rows
inserted(table, row) ==
    Append(table, [row EXCEPT !.id = Some(Len(table) + 1)])

SeriesIds == {1, 2}
BucketStarts == {0, 1}

\* the aggregates the statistics compiler hands over
StatisticDatas ==
    {[start |-> b, mean |-> Some(m), sum |-> None] :
        b \in BucketStarts, m \in {1, 2}}

\* what the last write was and how it ended
Written(table_name, row, outcome) ==
    [table |-> table_name, metadata_id |-> row.metadata_id,
     start |-> row.start, outcome |-> outcome]

InitStatistics ==
    /\ event = None
    /\ dialect = None
    /\ dbevent = None
    /\ dbstate = None
    /\ shared_attrs = None
    /\ native = NotRead
    /\ TablesEmpty

\* session.add(Statistics.from_stats(metadata_id, stats)) and its flush
StatisticsInsert ==
    \E metadata_id \in SeriesIds, stats \in StatisticDatas :
        LET row == from_stats(metadata_id, stats)
        IN  IF unique_index_conflict(statistics, row)
            THEN /\ stats_result' = Written("statistics", row, "IntegrityError")
                 /\ UNCHANGED <<statistics, statistics_short_term>>
                 /\ UNCHANGED <<conv_vars, run_vars, store_vars>>
            ELSE /\ Len(statistics) < MaxRows
                 /\ statistics' = inserted(statistics, row)
                 /\ stats_result' = Written("statistics", row, "ok")
                 /\ UNCHANGED statistics_short_term
                 /\ UNCHANGED <<conv_vars, run_vars, store_vars>>

\* session.add(StatisticsShortTerm.from_stats(metadata_id, stats)) and its
\* flush
StatisticsShortTermInsert ==
    \E metadata_id \in SeriesIds, stats \in StatisticDatas :
        LET row == from_stats(metadata_id, stats)
        IN  IF unique_index_conflict(statistics_short_term, row)
            THEN /\ stats_result' =
                        Written("statistics_short_term", row, "IntegrityError")
                 /\ UNCHANGED <<statistics, statistics_short_term>>
                 /\ UNCHANGED <<conv_vars, run_vars, store_vars>>
            ELSE /\ Len(statistics_short_term) < MaxRows
                 /\ statistics_short_term' =
                        inserted(statistics_short_term, row)
                 /\ stats_result' = Written("statistics_short_term", row, "ok")
                 /\ UNCHANGED statistics
                 /\ UNCHANGED <<conv_vars, run_vars, store_vars>>

NextStatistics ==
    \/ StatisticsInsert
    \/ StatisticsShortTermInsert

SpecStatistics == InitStatistics /\ [][NextStatistics]_vars

\* no two rows of the table share (metadata_id, start)
UniqueKeys(table) ==
    \A i, j \in 1..Len(table) :
        (table[i].metadata_id = table[j].metadata_id
            /\ table[i].start = table[j].start) => i = j

\* the table holds a row with this key
HasKey(table, metadata_id, start) ==
    \E i \in 1..Len(table) :
        table[i].metadata_id = metadata_id /\ table[i].start = start

\* a step that writes to the table named table_name, seen from the table
\* before and after and the other table: a key already present gives a
\* conflict error and changes nothing; a new key is appended as one row,
\* whatever the other table holds
WriteStep(table_name, table, table_after) ==
    stats_result'.table = table_name
    => IF HasKey(table, stats_result'.metadata_id, stats_result'.start)
       THEN /\ stats_result'.outcome = "IntegrityError"
            /\ table_after = table
       ELSE /\ stats_result'.outcome = "ok"
            /\ Len(table_after) = Len(table) + 1
            /\ SubSeq(table_after, 1, Len(table)) = table
            /\ table_after[Len(table_after)].metadata_id
                   = stats_result'.metadata_id
            /\ table_after[Len(table_after)].start = stats_result'.start

\* C6: after any sequence of writes each statistics table holds at most one
\* row per (metadata_id, start); a write for a key the table already holds
\* ends in a conflict error and leaves both tables as they were, and a write
\* for a key new to its table appends one row there, whether or not the
\* other table holds the key.
C6_StatisticsUnique ==
    /\ [](UniqueKeys(statistics) /\ UniqueKeys(statistics_short_term))
    /\ [][/\ WriteStep("statistics", statistics, statistics')
          /\ WriteStep("statistics_short_term", statistics_short_term,
                       statistics_short_term')
          /\ stats_result'.table = "statistics"
                 => statistics_short_term' = statistics_short_term
          /\ stats_result'.table = "statistics_short_term"
                 => statistics' = statistics]_vars

\* a second write of a key ended in a conflict in the long-term table, which
\* still holds the first row, while the short-term table holds the same key
C6_Witness ==
    /\ stats_result.table = "statistics"
    /\ stats_result.outcome = "IntegrityError"
    /\ HasKey(statistics, stats_result.metadata_id, stats_result.start)
    /\ HasKey(statistics_short_term, stats_result.metadata_id,
              stats_result.start)

(***************************************************************************)
(* RecorderRuns.entity_ids over the states table.                          *)
(***************************************************************************)
\* a persisted run
RecorderRunsRow(start, end) ==
    [run_id |-> Some(1), start |-> Some(start), end |-> end,
     closed_incorrect |-> Some(FALSE), created |-> Some(start)]

\* SQL comparisons: a comparison with NULL is not true
SqlGe(column, value) == column # None /\ Get(column) >= value
SqlLt(column, value) == column # None /\ Get(column) < value

\* RecorderRuns.entity_ids(point_in_time): the distinct entity ids of the
\* rows the query keeps
entity_ids(run, point_in_time) ==
    LET kept(row) ==
            /\ SqlGe(row.last_updated, Get(run.start))
            /\ IF point_in_time # None
               THEN SqlLt(row.last_updated, Get(point_in_time))
               ELSE IF run.end # None
               THEN SqlLt(row.last_updated, Get(run.end))
               ELSE TRUE
    IN  {Get(states[i].entity_id) : i \in {j \in 1..Len(states) : kept(states[j])}}

\* the state changes recorded while a run is under way: the new state is
\* updated and changed when the event fires
RunEvents ==
    {Event(Some("state_changed"),
           [entity_id |-> Some(id), old_state |-> None,
            new_state |-> Some(State(Some(id), Some("on"), SomeAttrs, t, t,
                                     Context(Some("c1"), None, None)))],
           "LOCAL", t, Context(Some("c1"), None, None)) :
        id \in EntityIds, t \in Times}

\* a States row an earlier version wrote, with the legacy datetimes only
LegacyStatesRow ==
    [StatesColumns EXCEPT
        !.state_id = Some(1),
        !.entity_id = Some("sensor.y"),
        !.state = Some("on"),
        !.attributes = Some(json_bytes(SomeAttrs)),
        !.last_updated = Some(0),
        !.last_changed = Some(0),
        !.context_id = Some("c1")]

\* whether instant t lies in [run.start, min(point_in_time, run.end or now)):
\* every row was written before now
InRun(run, point_in_time, t) ==
    /\ t >= Get(run.start)
    /\ IF point_in_time # None THEN t < Get(point_in_time) ELSE TRUE
    /\ IF run.end # None THEN t < Get(run.end) ELSE TRUE

\* a run has been persisted (it is under way, or ended after it started);
\* the states table is empty or holds a row of an earlier version
InitRuns ==
    /\ event = None
    /\ dialect = None
    /\ dbevent = None
    /\ dbstate = None
    /\ shared_attrs = None
    /\ native = NotRead
    /\ states \in {<<>>, <<LegacyStatesRow>>}
    /\ \E start \in Times :
         \E end \in {None} \cup {Some(t) : t \in {u \in Times : u > start}} :
            recorder_runs = <<RecorderRunsRow(start, end)>>
    /\ run_entity_ids = None
    /\ statistics = <<>>
    /\ statistics_short_term = <<>>
    /\ stats_result = NothingWritten
    /\ StoreEmpty

\* session.add(States.from_event(event)) and its flush, during the run:
\* the identity column numbers the rows
StatesInsert ==
    \E e \in RunEvents :
        /\ Len(states) < MaxRows
        /\ InRun(recorder_runs[1], None, e.time_fired)
        /\ states' = Append(states, [States_from_event(e) EXCEPT
                                        !.state_id = Some(Len(states) + 1)])
        /\ run_entity_ids' = None
        /\ UNCHANGED <<recorder_runs, conv_vars, stat_vars, store_vars>>

\* run.entity_ids(point_in_time)
RunEntityIds ==
    \E point_in_time \in {None} \cup {Some(t) : t \in Times} :
        /\ run_entity_ids' =
               Some([point_in_time |-> point_in_time,
                     ids |-> entity_ids(recorder_runs[1], point_in_time)])
        /\ UNCHANGED <<states, recorder_runs, conv_vars, stat_vars, store_vars>>

NextRuns ==
    \/ StatesInsert
    \/ RunEntityIds

SpecRuns == InitRuns /\ [][NextRuns]_vars

\* C10: RecorderRuns.entity_ids returns exactly the distinct entity ids of
\* the states rows whose last-updated lies in
\* [run.start, min(point_in_time, run.end or now)), the rows written by
\* States.from_event during the run included; a point_in_time after run.end
\* does not extend the interval.
C10_EntityIdsOfRun ==
    run_entity_ids # None
    => Get(run_entity_ids).ids
           = {Get(states[i].entity_id) :
                i \in {j \in 1..Len(states) :
                         InRun(recorder_runs[1],
                               Get(run_entity_ids).point_in_time,
                               Versioned(states[j].last_updated_ts,
                                         states[j].last_updated))}}

(***************************************************************************)
(* The bytes of an encoded text and their hash (fnvhash.fnv1a_32).  A      *)
(* 32-bit hash is a record [hi, lo] of its two 16-bit halves.              *)
(***************************************************************************)
KeyBytes(key) ==
    CASE key = "brightness" -> <<98, 114, 105, 103, 104, 116, 110, 101, 115, 115>>
      [] key = "effect_list" ->
             <<101, 102, 102, 101, 99, 116, 95, 108, 105, 115, 116>>
      [] key = "restored" -> <<114, 101, 115, 116, 111, 114, 101, 100>>

PunctByte(c) ==
    CASE c = "{" -> 123
      [] c = "}" -> 125
      [] c = ":" -> 58
      [] c = "," -> 44

\* the decimal digits of a natural number, in ASCII
RECURSIVE DigitBytes(_)
DigitBytes(n) ==
    IF n < 10 THEN <<48 + n>> ELSE DigitBytes(n \div 10) \o <<48 + (n % 10)>>

\* the bytes of one token: a key or string between double quotes (a string
\* of n characters is n letters x), a number in decimal, null, punctuation
TokByteSeq(t) ==
    CASE t.k = "punct" -> <<PunctByte(t.s)>>
      [] t.k = "key" -> <<34>> \o KeyBytes(t.s) \o <<34>>
      [] t.k = "num" -> DigitBytes(t.n)
      [] t.k = "str" -> <<34>> \o [i \in 1..t.n |-> 120] \o <<34>>
      [] t.k = "null" -> <<110, 117, 108, 108>>

RECURSIVE Bytes(_)
Bytes(text) ==
    IF text = <<>> THEN <<>> ELSE TokByteSeq(Head(text)) \o Bytes(Tail(text))

\* exclusive or of two numbers of nbits bits
RECURSIVE Xor(_, _, _)
Xor(a, b, nbits) ==
    IF nbits = 0 THEN 0
    ELSE (((a % 2) + (b % 2)) % 2) + 2 * Xor(a \div 2, b \div 2, nbits - 1)

\* the FNV offset basis 0x811C9DC5
FnvOffsetBasis == [hi |-> 33052, lo |-> 40389]

\* multiplication by the FNV prime 0x01000193 = 256 * 2^16 + 403, mod 2^32
TimesFnvPrime(h) ==
    LET low == h.lo * 403
    IN  [hi |-> (h.hi * 403 + h.lo * 256 + (low \div 65536)) % 65536,
         lo |-> low % 65536]

\* the byte is xor-ed into the low eight bits of the hash
XorByte(h, byte) ==
    [hi |-> h.hi, lo |-> (h.lo - (h.lo % 256)) + Xor(h.lo % 256, byte, 8)]

\* FNV-1: multiply, then xor.  (The test of the hash so far makes TLC
\* evaluate it byte by byte instead of all at once at the end.)
RECURSIVE fnv1_32_from(_, _)
fnv1_32_from(h, bytes) ==
    IF bytes = <<>> \/ h.hi \notin 0..65535 THEN h
    ELSE fnv1_32_from(XorByte(TimesFnvPrime(h), Head(bytes)), Tail(bytes))

\* FNV-1a: xor, then multiply
RECURSIVE fnv1a_32_from(_, _)
fnv1a_32_from(h, bytes) ==
    IF bytes = <<>> \/ h.hi \notin 0..65535 THEN h
    ELSE fnv1a_32_from(TimesFnvPrime(XorByte(h, Head(bytes))), Tail(bytes))

fnv1a_32(text) == fnv1a_32_from(FnvOffsetBasis, Bytes(text))

\* mutant: the event data is hashed with FNV-1 instead of FNV-1a
hash_shared_data_bytes_fnv1(shared_data_bytes) ==
    fnv1_32_from(FnvOffsetBasis, Bytes(shared_data_bytes))

\* EventData.hash_shared_data_bytes
hash_shared_data_bytes(shared_data_bytes) == fnv1a_32(shared_data_bytes)

\* StateAttributes.hash_shared_attrs_bytes
hash_shared_attrs_bytes(shared_attrs_bytes) == fnv1a_32(shared_attrs_bytes)

(***************************************************************************)
(* The payload stores (event_data, state_attributes) and the rows that     *)
(* refer to them (events.data_id, states.attributes_id), written by the    *)
(* single recorder thread inside one database transaction at a time.  The  *)
(* rows the open transaction appended are the last uncommitted[table]      *)
(* rows of each table; a rollback, or a crash, leaves the rows before      *)
(* them.                                                                   *)
(***************************************************************************)
\* payloads handed to the stores
PayloadBytes ==
    {EmptyObjectBytes,
     json_bytes(SomeAttrs),
     json_bytes([EmptyMap EXCEPT !["brightness"] = JNull])}

\* the events and state changes recorded
StoreEvents ==
    {Event(Some("call_service"), NoData, "LOCAL", 0,
           Context(Some("c1"), None, None))}

StoreStateChanges ==
    {Event(Some("state_changed"), d, "LOCAL", 1,
           Context(Some("c1"), None, None)) :
        d \in {[entity_id |-> Some("light.x"), old_state |-> None,
                new_state |-> None]}}

\* the references a caller may hold: none, or one a store call returned at
\* some time (in a transaction that committed or in one that did not)
Refs == {None} \cup {Some(id) : id \in 1..MaxStoreRows}

\* a new EventData / StateAttributes object
EventDataColumns == [data_id |-> None, hash |-> None, shared_data |-> None]
StateAttributesColumns ==
    [attributes_id |-> None, hash |-> None, shared_attrs |-> None]

\* Identity(): the database numbers a new row one above the rows of the
\* table
Identity(ids) ==
    IF ids = {} THEN 1 ELSE 1 + (CHOOSE id \in ids : \A used \in ids : id >= used)

\* primary_key=True: the column is unique and not NULL
primary_key_conflict(ids, id) == id \in ids

\* mutant: the reference is not declared a foreign key
no_foreign_key(ref, ids) == FALSE

\* ForeignKey(...): a non-NULL reference must name a row of the table
foreign_key_violated(ref, ids) == ref # None /\ Get(ref) \notin ids

EventDataIds == {Get(event_data[i].data_id) : i \in 1..Len(event_data)}
StateAttributesIds ==
    {Get(state_attributes[i].attributes_id) : i \in 1..Len(state_attributes)}
EventsIds == {Get(events[i].event_id) : i \in 1..Len(events)}
StatesIds == {Get(states[i].state_id) : i \in 1..Len(states)}

\* the rows written to the four tables
StoreRows ==
    Len(events) + Len(states) + Len(event_data) + Len(state_attributes)

\* the rows of a table without the last n
Without(table, n) == SubSeq(table, 1, Len(table) - n)

\* session.rollback(), and what a crash leaves: the open transaction's rows
\* are gone, and with them the references its store calls returned
Rollback ==
    /\ uncommitted # NothingUncommitted
    /\ events' = Without(events, uncommitted.events)
    /\ states' = Without(states, uncommitted.states)
    /\ event_data' = Without(event_data, uncommitted.event_data)
    /\ state_attributes' =
           Without(state_attributes, uncommitted.state_attributes)
    /\ uncommitted' = NothingUncommitted
    /\ stored' =
           {s \in stored :
               \/ /\ s.store = "event_data"
                  /\ \E i \in 1..(Len(event_data) - uncommitted.event_data) :
                        event_data[i].data_id = Some(s.ref)
               \/ /\ s.store = "state_attributes"
                  /\ \E i \in 1..(Len(state_attributes)
                                    - uncommitted.state_attributes) :
                        state_attributes[i].attributes_id = Some(s.ref)}
    /\ UNCHANGED <<conv_vars, recorder_runs, run_entity_ids, stat_vars>>

\* session.commit()
Commit ==
    /\ uncommitted # NothingUncommitted
    /\ uncommitted' = NothingUncommitted
    /\ UNCHANGED <<conv_vars, run_vars, stat_vars, events, event_data,
                   state_attributes, stored>>

InitStore ==
    /\ event = None
    /\ dialect = None
    /\ dbevent = None
    /\ dbstate = None
    /\ shared_attrs = None
    /\ native = NotRead
    /\ TablesEmpty

\* store in event_data: session.add(EventData(shared_data=..., hash=...))
\* and its flush
EventDataStore ==
    \E payload \in PayloadBytes :
        LET data_id == Identity(EventDataIds)
        IN  /\ StoreRows < MaxStoreRows
            /\ ~primary_key_conflict(EventDataIds, data_id)
            /\ event_data' =
                   Append(event_data,
                          [EventDataColumns EXCEPT
                              !.data_id = Some(data_id),
                              !.hash = Some(hash_shared_data_bytes(
                                                payload)),
                              !.shared_data = Some(payload)])
            /\ uncommitted' = [uncommitted EXCEPT !.event_data = @ + 1]
            /\ stored' = stored \cup {[store |-> "event_data",
                                       ref |-> data_id,
                                       bytes |-> payload]}
            /\ UNCHANGED <<conv_vars, run_vars, stat_vars, events,
                           state_attributes>>

\* store in state_attributes:
\* session.add(StateAttributes(shared_attrs=..., hash=...)) and its flush
StateAttributesStore ==
    \E payload \in PayloadBytes :
        LET attributes_id == Identity(StateAttributesIds)
        IN  /\ StoreRows < MaxStoreRows
            /\ ~primary_key_conflict(StateAttributesIds, attributes_id)
            /\ state_attributes' =
                   Append(state_attributes,
                          [StateAttributesColumns EXCEPT
                              !.attributes_id = Some(attributes_id),
                              !.hash = Some(hash_shared_attrs_bytes(
                                                payload)),
                              !.shared_attrs = Some(payload)])
            /\ uncommitted' = [uncommitted EXCEPT !.state_attributes = @ + 1]
            /\ stored' = stored \cup {[store |-> "state_attributes",
                                       ref |-> attributes_id,
                                       bytes |-> payload]}
            /\ UNCHANGED <<conv_vars, run_vars, stat_vars, events,
                           event_data>>

\* the Events row of an event, referring to its payload by data_id:
\* session.add(dbevent) and its flush.  A reference that names no
\* event_data row fails the insert, and the transaction is rolled back.
EventsInsert ==
    \E e \in StoreEvents :
        \E data_id \in Refs :
            LET event_id == Identity(EventsIds)
            IN  /\ StoreRows < MaxStoreRows
                /\ IF foreign_key_violated(data_id, EventDataIds)
                   THEN Rollback
                   ELSE /\ events' =
                               Append(events,
                                      [Events_from_event(e) EXCEPT
                                          !.event_id = Some(event_id),
                                          !.data_id = data_id])
                        /\ uncommitted' = [uncommitted EXCEPT !.events = @ + 1]
                        /\ UNCHANGED <<conv_vars, run_vars, stat_vars,
                                       event_data, state_attributes, stored>>

\* the States row of a state change, referring to its attributes by
\* attributes_id: session.add(dbstate) and its flush
StatesInsertRow ==
    \E e \in StoreStateChanges :
        \E attributes_id \in Refs :
            LET state_id == Identity(StatesIds)
            IN  /\ StoreRows < MaxStoreRows
                /\ IF foreign_key_violated(attributes_id, StateAttributesIds)
                   THEN Rollback
                   ELSE /\ states' =
                               Append(states,
                                      [States_from_event(e) EXCEPT
                                          !.state_id = Some(state_id),
                                          !.attributes_id = attributes_id])
                        /\ uncommitted' = [uncommitted EXCEPT !.states = @ + 1]
                        /\ UNCHANGED <<conv_vars, recorder_runs,
                                       run_entity_ids, stat_vars, events,
                                       event_data, state_attributes, stored>>

NextStore ==
    \/ EventDataStore
    \/ StateAttributesStore
    \/ EventsInsert
    \/ StatesInsertRow
    \/ Commit
    \/ Rollback

SpecStore == InitStore /\ [][NextStore]_vars

\* a payload store seen through its three columns: reference, hash, bytes
EventDataView ==
    [i \in 1..Len(event_data) |->
        [ref |-> event_data[i].data_id, hash |-> event_data[i].hash,
         bytes |-> event_data[i].shared_data]]

StateAttributesView ==
    [i \in 1..Len(state_attributes) |->
        [ref |-> state_attributes[i].attributes_id,
         hash |-> state_attributes[i].hash,
         bytes |-> state_attributes[i].shared_attrs]]

PayloadStores == {"event_data", "state_attributes"}

PayloadStore(name) ==
    IF name = "event_data" THEN EventDataView ELSE StateAttributesView

\* fetch: the text of the rows a reference names
fetch(table, ref) ==
    {Get(table[i].bytes) : i \in {j \in 1..Len(table) : table[j].ref = Some(ref)}}

\* what holds of a payload store in every state
AppendOnlyStoreState(name) ==
    LET table == PayloadStore(name)
    IN  /\ \A i \in 1..Len(table) : table[i].ref # None
        /\ \A i, j \in 1..Len(table) : i # j => table[i].ref # table[j].ref
        /\ \A s \in stored :
              s.store = name => fetch(table, s.ref) = {s.bytes}
        /\ \A i \in 1..Len(table) :
              /\ table[i].hash = Some(fnv1a_32(Get(table[i].bytes)))
              /\ table[i].bytes = Some(EmptyObjectBytes)
                 => table[i].hash = Some([hi |-> 21605, lo |-> 47141])
        /\ \A other \in PayloadStores :
              \A i \in 1..Len(table) :
                 \A j \in 1..Len(PayloadStore(other)) :
                    table[i].bytes = PayloadStore(other)[j].bytes
                    => table[i].hash = PayloadStore(other)[j].hash

\* what holds of a payload store in every step: the rows that stay are as
\* they were, and a store call adds one row, last, under a reference no row
\* had, and hands that reference out
AppendOnlyStoreStep(name) ==
    LET before == PayloadStore(name)
        after == PayloadStore(name)'
    IN  /\ \A i \in 1..Len(before) : i <= Len(after) => after[i] = before[i]
        /\ Len(after) > Len(before)
           => /\ Len(after) = Len(before) + 1
              /\ \A i \in 1..Len(before) :
                    before[i].ref # after[Len(after)].ref
              /\ stored' = stored \cup
                     {[store |-> name, ref |-> Get(after[Len(after)].ref),
                       bytes |-> Get(after[Len(after)].bytes)]}

\* C12: in each payload store every store call appends a row under a fresh
\* reference and no step changes a row that stays; fetch of a reference that
\* a store call handed out returns exactly the bytes stored under it; two
\* rows with identical bytes, in one store or one in each, have distinct
\* references and equal hashes, the hash being the 32-bit FNV-1a of the bytes.
C12_AppendOnlyStore ==
    /\ [](\A name \in PayloadStores : AppendOnlyStoreState(name))
    /\ [][\A name \in PayloadStores : AppendOnlyStoreStep(name)]_vars

\* identical bytes were stored twice in event_data and once in
\* state_attributes, and all three references are still held
C12_Witness ==
    /\ Len(event_data) = 2
    /\ event_data[1].shared_data = event_data[2].shared_data
    /\ event_data[1].data_id # event_data[2].data_id
    /\ Len(state_attributes) = 1
    /\ state_attributes[1].shared_attrs = event_data[1].shared_data
    /\ state_attributes[1].shared_attrs # Some(EmptyObjectBytes)
    /\ Cardinality(stored) = 3

\* no reference of the events rows ev and the states rows st is dangling in
\* the payload rows ed and sa
NoDanglingReference(ev, ed, st, sa) ==
    /\ \A i \in 1..Len(ev) :
          ev[i].data_id # None
          => \E j \in 1..Len(ed) : ed[j].data_id = ev[i].data_id
    /\ \A i \in 1..Len(st) :
          st[i].attributes_id # None
          => \E j \in 1..Len(sa) : sa[j].attributes_id = st[i].attributes_id

\* C13: in every reachable state, as the open transaction sees the tables
\* and as a crash or abort at that point would leave them, every non-null
\* data_id of an events row and every non-null attributes_id of a states row
\* names a row of the corresponding payload store.
C13_NoDanglingReference ==
    /\ NoDanglingReference(events, event_data, states, state_attributes)
    /\ NoDanglingReference(
           Without(events, uncommitted.events),
           Without(event_data, uncommitted.event_data),
           Without(states, uncommitted.states),
           Without(state_attributes, uncommitted.state_attributes))

\* a committed events row refers to its committed payload, and the open
\* transaction has stored a payload but not yet the row that refers to it
C13_Witness ==
    /\ Len(events) = 1
    /\ events[1].data_id # None
    /\ Len(event_data) = 2
    /\ uncommitted = [NothingUncommitted EXCEPT !.event_data = 1]

====
